---- MODULE Spec2Model ----
(***************************************************************************)
(* OverLeafAI: the editor's conversion effect (frontend/src/App.tsx), the  *)
(* /convert route with its converters (backend/src/server.js) and the two  *)
(* segment extractors.  Strings are sequences of one-character strings.    *)
(***************************************************************************)
EXTENDS Integers, Sequences, FiniteSets, TLC

\* the editor (App.tsx), its server's configuration, and what the model records
VARIABLES
  build,         \* which frontend is running: "App" or "part_000"
  hasOpenAIKey,  \* server.js: Boolean(process.env.OPENAI_API_KEY)
  input,         \* useState(defaultSeed)
  segments,      \* useState<Segment[]>([])
  status,        \* useState<Status>('idle')
  errorMessage,  \* useState<string | null>(null)
  latexCache,    \* latexCacheRef.current
  batches,       \* effect closures with an armed timer or a request in flight
  generation,    \* number of edits so far; the id of the latest effect run
  posted,        \* /convert requests sent so far: <<generation, input>>
  lastShown,     \* per document, the segments its last successful batch displayed
  lastApplied,   \* the snapshot of the batch applied last, and what the server rendered for it
  request,       \* the /convert request the server is handling, if any
  response,      \* the server's answer to the last request, if any
  serviceCalls,  \* calls of the external service made for the last request
  document,      \* a document handed to the extractors
  extracted,     \* what each extractSegments returned for it
  latexString,   \* a LaTeX string handed to normalizeLatex
  normalized,    \* what normalizeLatex returned for it
  ALLOW_REMOTE_COMPILER, \* process.env.ALLOW_REMOTE_COMPILER !== 'false'
  exportJob,     \* the /export-pdf request being handled and where its handler is
  compilerCalls, \* invocations of the local engine and of the remote compiler for it
  exportResponse \* the answer to the last /export-pdf request, if any

\* ------------------------------------------------------------------------
\* Characters and String.prototype helpers
\* ------------------------------------------------------------------------
LowerLetters ==
  <<"a","b","c","d","e","f","g","h","i","j","k","l","m",
    "n","o","p","q","r","s","t","u","v","w","x","y","z">>

UpperLetters ==
  <<"A","B","C","D","E","F","G","H","I","J","K","L","M",
    "N","O","P","Q","R","S","T","U","V","W","X","Y","Z">>

NumLetters == Len(LowerLetters)

\* the class [a-zA-Z] of normalizeLatex's lookahead
IsLetter(c) ==
  \E i \in 1..NumLetters : LowerLetters[i] = c \/ UpperLetters[i] = c

\* the "i" flag of basicInlineConverter's patterns
toLowerCase(c) ==
  IF \E i \in 1..NumLetters : UpperLetters[i] = c
  THEN LowerLetters[CHOOSE i \in 1..NumLetters : UpperLetters[i] = c]
  ELSE c

\* whitespace removed by String.prototype.trim
IsSpace(c) == c \in {" ", "\n", "\t"}

\* what "." cannot match without the "s" flag
IsLineTerminator(c) == c = "\n"

Min(S) == CHOOSE x \in S : \A y \in S : x <= y

Max(S) == CHOOSE x \in S : \A y \in S : x >= y

trim(s) ==
  LET keep == {i \in 1..Len(s) : ~IsSpace(s[i])}
  IN  IF keep = {} THEN <<>>
      ELSE SubSeq(s,
                  CHOOSE i \in keep : \A j \in 1..(i - 1) : IsSpace(s[j]),
                  CHOOSE i \in keep : \A j \in (i + 1)..Len(s) : IsSpace(s[j]))

\* String.prototype.slice(from, to) with 0-based from, exclusive to
slice(s, from, to) == SubSeq(s, from + 1, to)

\* first 1-based index i in from..(limit-1) with s[i] = c, or 0
FirstIn(s, c, from, limit) ==
  LET hits == {i \in from..(limit - 1) : i <= Len(s) /\ s[i] = c}
  IN  IF hits = {} THEN 0 ELSE Min(hits)

\* the literal lit occurs in s at 1-based index at
HasAt(s, lit, at) ==
  /\ at >= 1
  /\ at + Len(lit) - 1 <= Len(s)
  /\ \A k \in 1..Len(lit) : s[at + k - 1] = lit[k]

\* the same, ignoring case
HasAtIgnoreCase(s, lit, at) ==
  /\ at >= 1
  /\ at + Len(lit) - 1 <= Len(s)
  /\ \A k \in 1..Len(lit) : toLowerCase(s[at + k - 1]) = lit[k]

\* ------------------------------------------------------------------------
\* Segment extraction
\* ------------------------------------------------------------------------
Seg(t, c) == [type |-> t, content |-> c]

Delim == "*"

\* a delimiter without a partner pairs with the end of the document
execPairToEnd(value, lastIndex) ==
  LET open  == FirstIn(value, Delim, lastIndex + 1, Len(value) + 1)
      close == IF open = 0 THEN 0
               ELSE FirstIn(value, Delim, open + 1, Len(value) + 1)
  IN  IF open = 0 THEN <<0, 0>>
      ELSE IF close = 0 THEN <<open, Len(value) + 1>> ELSE <<open, close>>

\* regex.exec for /\*(.*?)\*/gs from lastIndex (0-based): the 1-based
\* positions of the opening and the closing delimiter, or <<0, 0>>
execPair(value, lastIndex) ==
  LET open  == FirstIn(value, Delim, lastIndex + 1, Len(value) + 1)
      close == IF open = 0 THEN 0
               ELSE FirstIn(value, Delim, open + 1, Len(value) + 1)
  IN  IF close = 0 THEN <<0, 0>> ELSE <<open, close>>

\* every run is pushed as prose
pushRunAsText(out, t, run, trimmed) ==
  IF trim(run) = <<>> THEN out
  ELSE Append(out, Seg("text", IF trimmed THEN trim(run) ELSE run))

\* push of one run: kept only when non-blank; stored trimmed or verbatim
pushRun(out, t, run, trimmed) ==
  IF trim(run) = <<>> THEN out
  ELSE Append(out, Seg(t, IF trimmed THEN trim(run) ELSE run))

\* if (!segments.length && input.trim()) segments.push(the whole input)
wholeIfEmpty(value, out, trimmed) ==
  IF out = <<>> /\ trim(value) # <<>>
  THEN <<Seg("text", IF trimmed THEN trim(value) ELSE value)>>
  ELSE out

\* prose runs are never pushed
pushTextNever(out, value, from, to, trimmed) == out

\* if (from < to) push of the text run value.slice(from, to)
pushText(out, value, from, to, trimmed) ==
  IF from < to THEN pushRun(out, "text", slice(value, from, to), trimmed) ELSE out

\* one round of the while loop with m the result of regex.exec, and what
\* follows the loop when m is null
RECURSIVE extractLoop(_, _, _, _)
extractMatch(value, lastIndex, out, trimmed, m) ==
  IF m[1] = 0
  THEN wholeIfEmpty(value, pushText(out, value, lastIndex, Len(value), trimmed), trimmed)
  ELSE extractLoop(value, m[2],
                   pushRun(pushText(out, value, lastIndex, m[1] - 1, trimmed),
                           "math", slice(value, m[1], m[2] - 1), trimmed),
                   trimmed)

extractLoop(value, lastIndex, out, trimmed) ==
  extractMatch(value, lastIndex, out, trimmed, execPair(value, lastIndex))

\* backend/src/server.js
extractSegments(source) == extractLoop(source, 0, <<>>, TRUE)

\* the frontend takes the whole document for prose
extractSegmentsAppProseOnly(value) == wholeIfEmpty(value, <<>>, FALSE)

\* frontend/src/App.tsx: contents are stored untrimmed
extractSegmentsApp(value) == extractLoop(value, 0, <<>>, FALSE)

\* the earlier frontend (unnamed/part_000): contents are stored trimmed
extractSegmentsLegacy(value) == extractLoop(value, 0, <<>>, TRUE)

\* ------------------------------------------------------------------------
\* Fallback converter and normalization (server.js)
\* ------------------------------------------------------------------------
\* end (exclusive) of the line that holds index from
LineLimit(s, from) ==
  LET nl == {i \in from..Len(s) : IsLineTerminator(s[i])}
  IN  IF nl = {} THEN Len(s) + 1 ELSE Min(nl)

\* positions of the first n separators sep after index from, each after the
\* previous one, within the line; <<>> when there are fewer
RECURSIVE Separators(_, _, _, _, _)
Separators(s, sep, from, limit, n) ==
  IF n = 0 THEN <<>>
  ELSE LET p == FirstIn(s, sep, from, limit)
       IN  IF p = 0 THEN <<0>>
           ELSE <<p>> \o Separators(s, sep, p + 1, limit, n - 1)

\* one attempt of  name\((.*?),...,(.*?)\)  at index at, with commas commas:
\* <<end of the match (exclusive), the groups>> or <<0, <<>>>>
\* the groups: what lies between consecutive cuts
groupsOf(s, cuts) ==
  [k \in 1..(Len(cuts) - 1) |-> SubSeq(s, cuts[k] + 1, cuts[k + 1] - 1)]

\* the closing parenthesis: the first one behind the last separator, within
\* the line; 0 when a separator is missing or there is none
closeAfter(s, seps, start, limit) ==
  IF \E k \in 1..Len(seps) : seps[k] = 0 THEN 0
  ELSE FirstIn(s, ")", IF seps = <<>> THEN start ELSE seps[Len(seps)] + 1, limit)

matchClosed(s, start, seps, close) ==
  IF close = 0 THEN <<0, <<>>>>
  ELSE <<close + 1, groupsOf(s, <<start - 1>> \o seps \o <<close>>)>>

matchSeparated(s, start, limit, seps) ==
  matchClosed(s, start, seps, closeAfter(s, seps, start, limit))

matchFrom(s, commas, start, limit) ==
  matchSeparated(s, start, limit, Separators(s, ",", start, limit, commas))

matchCall(s, name, commas, at) ==
  IF ~HasAtIgnoreCase(s, name, at) THEN <<0, <<>>>>
  ELSE matchFrom(s, commas, at + Len(name), LineLimit(s, at + Len(name)))

\* the replacement strings of basicInlineConverter: '\\\\sqrt{$1}' is the
\* JavaScript string \\sqrt{$1}
sqrtReplacement(g) ==
  <<"\\","\\","s","q","r","t","{">> \o g[1] \o <<"}">>

intReplacement(g) ==
  <<"\\","\\","i","n","t","_","{"," ">> \o g[1] \o <<" ","}","^","{"," ">> \o g[2]
    \o <<" ","}"," ">> \o g[3] \o <<" ","\\","\\","m","a","t","h","r","m","{","d","}">> \o g[4]

fracReplacement(g) ==
  <<"\\","\\","f","r","a","c","{">> \o g[1] \o <<"}","{">> \o g[2] \o <<"}">>

applyReplacement(kind, g) ==
  CASE kind = "sqrt" -> sqrtReplacement(g)
    [] kind = "int"  -> intReplacement(g)
    [] OTHER         -> fracReplacement(g)

\* String.prototype.replace with a global pattern: the leftmost match at or
\* after pos is replaced and the scan resumes behind it
RECURSIVE replaceCalls(_, _, _, _, _, _)
\* the match m found at index at is replaced
replaceMatch(s, name, commas, kind, pos, acc, at, m) ==
  replaceCalls(s, name, commas, kind, m[1],
               acc \o SubSeq(s, pos, at - 1) \o applyReplacement(kind, m[2]))

\* starts are the indexes at or after pos where the pattern matches
replaceFirst(s, name, commas, kind, pos, acc, starts) ==
  IF starts = {} THEN acc \o SubSeq(s, pos, Len(s))
  ELSE replaceMatch(s, name, commas, kind, pos, acc,
                    Min(starts), matchCall(s, name, commas, Min(starts)))

replaceCalls(s, name, commas, kind, pos, acc) ==
  replaceFirst(s, name, commas, kind, pos, acc,
               {p \in pos..Len(s) : matchCall(s, name, commas, p)[1] # 0})

SquarerootName == <<"s","q","u","a","r","e","r","o","o","t","(">>

IntegralName == <<"i","n","t","e","g","r","a","l","(">>

FractionName == <<"f","r","a","c","t","i","o","n","(">>

\* the three .replace calls, in the order they are chained
replacements ==
  << [name |-> SquarerootName, commas |-> 0, kind |-> "sqrt"],
     [name |-> IntegralName,   commas |-> 3, kind |-> "int"],
     [name |-> FractionName,   commas |-> 1, kind |-> "frac"] >>

RECURSIVE replaceFrom(_, _)
replaceFrom(s, k) ==
  IF k > Len(replacements) THEN s
  ELSE replaceFrom(replaceCalls(s, replacements[k].name, replacements[k].commas,
                                replacements[k].kind, 1, <<>>),
                   k + 1)

basicInlineConverter(source) == trim(replaceFrom(source, 1))

commands ==
  << <<"i","n","t">>, <<"s","u","m">>, <<"s","q","r","t">>, <<"s","i","n">>,
     <<"c","o","s">>, <<"t","a","n">>, <<"l","o","g">>, <<"n","a","b","l","a">>,
     <<"v","e","c">>, <<"c","d","o","t">>, <<"t","i","m","e","s">>,
     <<"b","o","x","e","d">> >>

Backslash == "\\"

\* the lookahead (?=[^a-zA-Z]|$) at index at
lookaheadOk(s, at) == at > Len(s) \/ ~IsLetter(s[at])

\* one attempt of (^|[^\\])(command)(?=[^a-zA-Z]|$) at index at: the length
\* of the prefix group plus one, or 0 when there is no match
escapeMatch(s, command, at) ==
  IF at = 1 /\ HasAt(s, command, 1) /\ lookaheadOk(s, 1 + Len(command)) THEN 1
  ELSE IF /\ at <= Len(s)
          /\ s[at] # Backslash
          /\ HasAt(s, command, at + 1)
          /\ lookaheadOk(s, at + 1 + Len(command)) THEN 2
  ELSE 0

\* replace(regex, (match, prefix, cmd) => `${prefix}\\${cmd}`), global
RECURSIVE escapeCommand(_, _, _, _)
\* the match at index at, whose prefix group has length prefix, is replaced
escapeAt(s, command, pos, acc, at, prefix) ==
  escapeCommand(s, command, at + prefix + Len(command),
                acc \o SubSeq(s, pos, at + prefix - 1) \o <<Backslash>> \o command)

\* starts are the indexes at or after pos where the pattern matches
escapeFirst(s, command, pos, acc, starts) ==
  IF starts = {} THEN acc \o SubSeq(s, pos, Len(s))
  ELSE escapeAt(s, command, pos, acc,
                Min(starts), escapeMatch(s, command, Min(starts)) - 1)

escapeCommand(s, command, pos, acc) ==
  escapeFirst(s, command, pos, acc,
              {p \in pos..Len(s) : escapeMatch(s, command, p) # 0})

RECURSIVE normalizeFrom(_, _)
normalizeFrom(s, k) ==
  IF k > Len(commands) THEN s
  ELSE normalizeFrom(escapeCommand(s, commands[k], 1, <<>>), k + 1)

normalizeLatex(latex) ==
  IF latex = <<>> THEN <<>> ELSE normalizeFrom(latex, 1)

\* ------------------------------------------------------------------------
\* The external text-to-LaTeX service and the /convert route (server.js)
\* ------------------------------------------------------------------------
\* an element of the JSON array parsed from the service's answer
StringItem(s) == [isString |-> TRUE, text |-> s]

NonStringItem == [isString |-> FALSE, text |-> <<>>]

\* the service's behaviour for one call: the call throws (network error,
\* error status) or yields the array extractArrayFromResponse parsed
ServiceThrows == [throws |-> TRUE, parsed |-> <<>>]

ServiceAnswers(parsed) == [throws |-> FALSE, parsed |-> parsed]

\* result of an async function: a value or a rejection
Resolved(v) == [ok |-> TRUE, value |-> v]

Rejected == [ok |-> FALSE, value |-> <<>>]

convertWithOpenAI(mathInstructions, service) ==
  IF mathInstructions = <<>> THEN Resolved(<<>>)
  ELSE IF service.throws THEN Rejected
  ELSE IF Len(service.parsed) > 0
  THEN Resolved([i \in 1..Len(service.parsed) |->
                   IF service.parsed[i].isString
                   THEN trim(service.parsed[i].text) ELSE <<>>])
  ELSE Rejected

\* segments.filter(type === 'math')
mathOf(parts) == SelectSeq(parts, LAMBDA seg : seg.type = "math")

contentsOf(parts) == [i \in 1..Len(parts) |-> parts[i].content]

\* latexList[index] ?? basicInlineConverter(segment.content)
backfill(latexList, mathSegments) ==
  IF Len(latexList) < Len(mathSegments)
  THEN [i \in 1..Len(mathSegments) |->
          IF i <= Len(latexList) THEN latexList[i]
          ELSE basicInlineConverter(mathSegments[i].content)]
  ELSE latexList

\* latexList[latexIndex++] || ''
latexAt(latexList, k) == IF k <= Len(latexList) THEN latexList[k] ELSE <<>>

\* the map/filter that builds orderedSegments; k is latexIndex + 1
\* if (!converted) return null; return { type: 'latex', content: converted }
latexSegment(converted) ==
  IF converted = <<>> THEN <<>> ELSE <<Seg("latex", converted)>>

\* a map that reads latexList at the segment's own index, not at latexIndex
RECURSIVE orderedFromSegmentIndex(_, _, _, _)
orderedFromSegmentIndex(parts, latexList, i, k) ==
  IF i > Len(parts) THEN <<>>
  ELSE IF parts[i].content = <<>>
  THEN orderedFromSegmentIndex(parts, latexList, i + 1, k)
  ELSE IF parts[i].type = "math"
  THEN latexSegment(normalizeLatex(latexAt(latexList, i)))
         \o orderedFromSegmentIndex(parts, latexList, i + 1, k + 1)
  ELSE <<Seg("text", parts[i].content)>>
         \o orderedFromSegmentIndex(parts, latexList, i + 1, k)

RECURSIVE orderedFrom(_, _, _, _)
orderedFrom(parts, latexList, i, k) ==
  IF i > Len(parts) THEN <<>>
  ELSE IF parts[i].content = <<>>
  THEN orderedFrom(parts, latexList, i + 1, k)
  ELSE IF parts[i].type = "math"
  THEN latexSegment(normalizeLatex(latexAt(latexList, k)))
         \o orderedFrom(parts, latexList, i + 1, k + 1)
  ELSE <<Seg("text", parts[i].content)>> \o orderedFrom(parts, latexList, i + 1, k)

orderedSegments(parts, latexList) == orderedFrom(parts, latexList, 1, 1)

\* latexList as first assigned: from the service when a key is configured,
\* else from the fallback converter
latexListFirst(mathSegments, hasKey, service) ==
  IF hasKey
  THEN convertWithOpenAI(contentsOf(mathSegments), service)
  ELSE Resolved([i \in 1..Len(mathSegments) |->
                   basicInlineConverter(mathSegments[i].content)])

\* the backfill, reached when the first assignment did not throw
latexListBackfilled(first, mathSegments) ==
  IF first.ok THEN Resolved(backfill(first.value, mathSegments)) ELSE Rejected

\* latexList as it stands before orderedSegments is built
latexListOf(mathSegments, hasKey, service) ==
  latexListBackfilled(latexListFirst(mathSegments, hasKey, service), mathSegments)

\* the early return for a document without instructions
textOnly(parts) ==
  SelectSeq([i \in 1..Len(parts) |-> Seg("text", parts[i].content)],
            LAMBDA seg : seg.content # <<>>)

\* the return value once latexList is settled
orderedResult(parts, latexList) ==
  IF ~latexList.ok THEN Rejected
  ELSE Resolved(orderedSegments(parts, latexList.value))

\* convertMathToLatex after its first two lines
convertSegments(parts, mathSegments, hasKey, service) ==
  IF mathSegments = <<>> THEN Resolved(textOnly(parts))
  ELSE orderedResult(parts, latexListOf(mathSegments, hasKey, service))

convertExtracted(parts, hasKey, service) ==
  convertSegments(parts, mathOf(parts), hasKey, service)

convertMathToLatex(source, hasKey, service) ==
  convertExtracted(extractSegments(source), hasKey, service)

\* what the conversion rendered for each instruction, in order; the empty
\* string where the instruction was dropped
renderedWith(mathSegments, latexList) ==
  IF mathSegments = <<>> \/ ~latexList.ok THEN <<>>
  ELSE [k \in 1..Len(mathSegments) |-> normalizeLatex(latexAt(latexList.value, k))]

renderedOf(mathSegments, hasKey, service) ==
  renderedWith(mathSegments, latexListOf(mathSegments, hasKey, service))

renderedFor(source, hasKey, service) ==
  renderedOf(mathOf(extractSegments(source)), hasKey, service)

\* a provider selection that does not look at the key
callsServiceWithoutKey(source, hasKey) ==
  mathOf(extractSegments(source)) # <<>>

\* whether convertMathToLatex calls the external service
callsService(source, hasKey) ==
  hasKey /\ mathOf(extractSegments(source)) # <<>>

\* a request body: input is absent, a non-string JSON value, or a string
BodyMissing == [kind |-> "missing", input |-> <<>>]

BodyNonString == [kind |-> "nonstring", input |-> <<>>]

BodyString(s) == [kind |-> "string", input |-> s]

BadRequestError == "Request body must include an \"input\" string with the math expression."

ConversionFailedError == "Failed to convert input to LaTeX. Check server logs for details."

HttpResponse(code, segs, err) == [status |-> code, segments |-> segs, error |-> err]

\* res.json(result), or the catch block
respond(result) ==
  IF result.ok THEN HttpResponse(200, result.value, "")
  ELSE HttpResponse(500, <<>>, ConversionFailedError)

\* a handler whose guard is only typeof input !== 'string'
convertRouteTypeOnly(body, hasKey, service) ==
  IF body.kind # "string"
  THEN HttpResponse(400, <<>>, BadRequestError)
  ELSE respond(convertMathToLatex(body.input, hasKey, service))

\* app.post('/convert')
convertRoute(body, hasKey, service) ==
  IF body.kind # "string" \/ body.input = <<>>
  THEN HttpResponse(400, <<>>, BadRequestError)
  ELSE respond(convertMathToLatex(body.input, hasKey, service))

\* ------------------------------------------------------------------------
\* Bounds and input sets
\* ------------------------------------------------------------------------
\* edits the user makes after the editor has mounted
MaxEdits == 2

\* longest array the external service answers with
MaxReply == 2

\* const defaultSeed
defaultSeed == <<
    "*","s","q","u","a","r","e","r","o","o","t","(","2","x",")","*"," ","c","a","p","t","u","r",
    "e","s"," ","h","o","w"," ","s","t","e","e","p"," ","t","h","e"," ","c","u","r","v","e"," ",
    "i","s",","," ","a","n","d"," ","*","i","n","t","e","g","r","a","l","(","0",","," ","p","i",
    ","," ","s","i","n","(","x",")",","," ","d","x",")","*"," ","m","e","a","s","u","r","e","s",
    " ","t","h","e"," ","t","o","t","a","l"," ","a","r","e","a","." >>

\* documents the user types: empty, blank, prose only, one instruction
\* followed by prose, two instructions (the first with a leading blank), and
\* the seed
Documents ==
  { <<>>,
    <<" ">>,
    <<"t">>,
    <<"*","a","*"," ","t">>,
    <<"*"," ","a","*","*","b","*">>,
    defaultSeed }

\* what one element of the service's array can be
ReplyItems ==
  { StringItem(<<"x">>), StringItem(<<"s","i","n">>), StringItem(<<>>), NonStringItem }

RECURSIVE ArraysOf(_, _)
ArraysOf(S, n) ==
  IF n = 0 THEN {<<>>}
  ELSE LET shorter == ArraysOf(S, n - 1)
       IN  shorter \cup {Append(a, x) : a \in {b \in shorter : Len(b) = n - 1}, x \in S}

ServiceBehaviours ==
  {ServiceThrows} \cup {ServiceAnswers(a) : a \in ArraysOf(ReplyItems, MaxReply)}

FrontendBuilds == {"App", "part_000"}

\* the two frontends' extractSegments, by build
extractFor(b, value) ==
  IF b = "App" THEN extractSegmentsApp(value) ELSE extractSegmentsLegacy(value)

\* the extractions of the frontend for the documents above, computed once
structuredOf ==
  [b \in FrontendBuilds, d \in Documents |-> extractFor(b, d)] @@ <<>>

\* ------------------------------------------------------------------------
\* The editor (App.tsx): state
\* ------------------------------------------------------------------------
editorVars ==
  <<build, input, segments, status, errorMessage, latexCache,
    batches, generation, posted, lastShown, lastApplied>>

serverVars == <<request, response, serviceCalls>>

extractorVars == <<document, extracted>>

normalizerVars == <<latexString, normalized>>

exportVars == <<ALLOW_REMOTE_COMPILER, exportJob, compilerCalls, exportResponse>>

\* the three extractSegments applied to one document
extractions(value) ==
  [server   |-> extractSegments(value),
   App      |-> extractSegmentsApp(value),
   part_000 |-> extractSegmentsLegacy(value)]

None == [none |-> TRUE]

Null == "null"

UnableToConvert == "Unable to convert input."

\* latexCacheRef.current.get(key); undefined is the empty (falsy) string
cacheGet(cache, key) == IF key \in DOMAIN cache THEN cache[key] ELSE <<>>

\* cache.set(key, value)
cacheSet(cache, key, value) ==
  [k \in DOMAIN cache \cup {key} |-> IF k = key THEN value ELSE cache[k]]

\* a hydration that never consults the cache
hydratedIgnoringCache(structured, cache) ==
  [i \in 1..Len(structured) |->
     IF structured[i].type = "text" THEN Seg("text", structured[i].content)
     ELSE Seg("placeholder", structured[i].content)]

\* const hydrated = structured.map(...)
hydrated(structured, cache) ==
  [i \in 1..Len(structured) |->
     IF structured[i].type = "text" THEN Seg("text", structured[i].content)
     ELSE IF cacheGet(cache, structured[i].content) # <<>>
     THEN Seg("latex", cacheGet(cache, structured[i].content))
     ELSE Seg("placeholder", structured[i].content)]

\* a check that asks for conversion whenever there is an instruction
needsConversionAlways(structured, cache) ==
  \E i \in 1..Len(structured) : structured[i].type = "math"

\* a check that never asks for conversion
needsConversionNever(structured, cache) == FALSE

needsConversion(structured, cache) ==
  \E i \in 1..Len(structured) :
     structured[i].type = "math" /\ cacheGet(cache, structured[i].content) = <<>>

\* the closure of one effect run that reached setTimeout
Batch(id, value, snapshot) ==
  [id |-> id, input |-> value, mathSnapshot |-> snapshot,
   isMounted |-> TRUE, aborted |-> FALSE, phase |-> "timer"]

\* the body of the conversion effect for a new input: what it sets, and the
\* batch it arms (none on the early returns)
\* an effect without its early returns: it always arms the timer
effectOnAlwaysArms(structured, value, cache, id) ==
  [segments |-> hydrated(structured, cache),
   status |-> "loading", errorMessage |-> Null,
   arms |-> {Batch(id, value, contentsOf(mathOf(structured)))}]

effectOn(structured, value, cache, id) ==
  IF trim(value) = <<>>
  THEN [segments |-> <<>>, status |-> "idle", errorMessage |-> Null, arms |-> {}]
  ELSE IF mathOf(structured) = <<>>
  THEN [segments |-> [i \in 1..Len(structured) |-> Seg("text", structured[i].content)],
        status |-> "idle", errorMessage |-> Null, arms |-> {}]
  ELSE IF ~needsConversion(structured, cache)
  THEN [segments |-> hydrated(structured, cache),
        status |-> "idle", errorMessage |-> Null, arms |-> {}]
  ELSE [segments |-> hydrated(structured, cache),
        status |-> "loading", errorMessage |-> Null,
        arms |-> {Batch(id, value, contentsOf(mathOf(structured)))}]

effect(b, value, cache, id) == effectOn(structuredOf[b, value], value, cache, id)

\* a cleanup that only clears the timer: a request in flight stays mounted
cleanupTimerOnly(batch) ==
  IF batch.phase = "timer" THEN {} ELSE {batch}

\* a cleanup that only clears isMounted: no abort, no clearTimeout
cleanupUnmountsOnly(batch) ==
  {[batch EXCEPT !.isMounted = FALSE]}

\* a cleanup that forgets clearTimeout
cleanupKeepsTimer(batch) ==
  {[batch EXCEPT !.isMounted = FALSE, !.aborted = TRUE]}

\* the effect's cleanup, run on the closure of the previous effect run:
\* isMounted = false; controller.abort(); clearTimeout(timeoutId).  An armed
\* timer never fires; a request in flight stays in flight, aborted.
cleanup(batch) ==
  IF batch.phase = "timer" THEN {}
  ELSE {[batch EXCEPT !.isMounted = FALSE, !.aborted = TRUE]}

\* latexSegments.forEach((segment, index) => cache.set(mathSnapshot[index], ...))
RECURSIVE mergeFrom(_, _, _, _)
mergeFrom(cache, latexSegments, mathSnapshot, index) ==
  IF index > Len(latexSegments) THEN cache
  ELSE LET original == IF index <= Len(mathSnapshot) THEN mathSnapshot[index] ELSE <<>>
       IN  mergeFrom(IF original # <<>>
                     THEN cacheSet(cache, original, latexSegments[index].content)
                     ELSE cache,
                     latexSegments, mathSnapshot, index + 1)

latexOf(segs) == SelectSeq(segs, LAMBDA seg : seg.type = "latex")

\* a merge into new Map() instead of new Map(latexCacheRef.current)
mergeCacheFresh(cache, data, mathSnapshot) ==
  mergeFrom(<<>>, latexOf(data), mathSnapshot, 1)

mergeCache(cache, data, mathSnapshot) ==
  mergeFrom(cache, latexOf(data), mathSnapshot, 1)

\* ------------------------------------------------------------------------
\* The editor: initial state and actions
\* ------------------------------------------------------------------------
\* the state after the first render and the first run of the effect, the
\* server idle
Started ==
  /\ build \in FrontendBuilds
  /\ hasOpenAIKey \in BOOLEAN
  /\ input = defaultSeed
  /\ latexCache = <<>>
  /\ generation = 0
  /\ \E e \in {effect(build, defaultSeed, <<>>, 0)} :
        /\ segments = e.segments
        /\ status = e.status
        /\ errorMessage = e.errorMessage
        /\ batches = e.arms
  /\ posted = {}
  /\ lastShown = <<>>
  /\ lastApplied = None
  /\ request = None
  /\ response = None
  /\ serviceCalls = 0
  /\ document = <<>>
  /\ extracted = extractions(<<>>)
  /\ latexString = <<>>
  /\ normalized = normalizeLatex(<<>>)
  /\ exportJob = None
  /\ compilerCalls = [local |-> 0, remote |-> 0]
  /\ exportResponse = None

\* ALLOW_REMOTE_COMPILER is not set in the environment
Init == Started /\ ALLOW_REMOTE_COMPILER = TRUE

\* onChange -> setInput(value): the previous effect run is cleaned up and the
\* effect runs again for the new input
Edit(value) ==
  /\ generation < MaxEdits
  /\ value # input
  /\ input' = value
  /\ generation' = generation + 1
  /\ \E e \in {effect(build, value, latexCache, generation + 1)} :
        /\ segments' = e.segments
        /\ status' = e.status
        /\ errorMessage' = e.errorMessage
        /\ batches' = UNION {IF b.id = generation THEN cleanup(b) ELSE {b} : b \in batches}
                         \cup e.arms
  /\ UNCHANGED <<build, hasOpenAIKey, latexCache, posted, lastShown, lastApplied>>
  /\ UNCHANGED serverVars
  /\ UNCHANGED <<extractorVars, normalizerVars, exportVars>>

\* the debounce timer fires: axios.post(`${API_BASE_URL}/convert`, { input })
\* (with a signal that is already aborted the call rejects at once)
TimerFires(batch) ==
  /\ batch \in batches
  /\ batch.phase = "timer"
  /\ IF batch.aborted
     THEN /\ batches' = batches \ {batch}
          /\ posted' = posted
     ELSE /\ batches' = (batches \ {batch}) \cup {[batch EXCEPT !.phase = "inflight"]}
          /\ posted' = posted \cup {<<batch.id, batch.input>>}
  /\ UNCHANGED <<build, hasOpenAIKey, input, segments, status, errorMessage,
                 latexCache, generation, lastShown, lastApplied>>
  /\ UNCHANGED serverVars
  /\ UNCHANGED <<extractorVars, normalizerVars, exportVars>>

\* how the awaited axios.post settles
Cancelled ==
  [kind |-> "cancel", response |-> HttpResponse(0, <<>>, ""), rendered |-> <<>>]

NetworkError ==
  [kind |-> "network", response |-> HttpResponse(0, <<>>, ""), rendered |-> <<>>]

Answered(answer, rendered) ==
  [kind |-> "response", response |-> answer, rendered |-> rendered]

\* the ways /convert can answer a document, with what it rendered for each
\* instruction, over the behaviours of the external service; computed once
answersOf ==
  [d \in Documents, k \in BOOLEAN |->
     {Answered(convertRoute(BodyString(d), k, service), renderedFor(d, k, service)) :
        service \in ServiceBehaviours}] @@ <<>>

Settlements(batch) ==
  IF batch.aborted THEN {Cancelled}
  ELSE {NetworkError} \cup answersOf[batch.input, hasOpenAIKey]

\* a continuation that forgets setStatus('idle')
ResolvesKeepingStatus(batch, settlement) ==
  IF ~batch.isMounted
  THEN UNCHANGED <<segments, status, errorMessage, latexCache, lastShown, lastApplied>>
  ELSE /\ segments' = settlement.response.segments
       /\ latexCache' = mergeCache(latexCache, settlement.response.segments,
                                   batch.mathSnapshot)
       /\ lastShown' = [d \in DOMAIN lastShown \cup {batch.input} |->
                          IF d = batch.input THEN settlement.response.segments
                          ELSE lastShown[d]]
       /\ lastApplied' = [mathSnapshot |-> batch.mathSnapshot,
                         rendered |-> settlement.rendered]
       /\ UNCHANGED <<status, errorMessage>>

\* the continuation after the await resolved
Resolves(batch, settlement) ==
  IF ~batch.isMounted
  THEN UNCHANGED <<segments, status, errorMessage, latexCache, lastShown, lastApplied>>
  ELSE LET data == settlement.response.segments
       IN  /\ segments' = data
           /\ latexCache' = mergeCache(latexCache, data, batch.mathSnapshot)
           /\ status' = "idle"
           /\ lastShown' = [d \in DOMAIN lastShown \cup {batch.input} |->
                              IF d = batch.input THEN data ELSE lastShown[d]]
           /\ lastApplied' = [mathSnapshot |-> batch.mathSnapshot,
                             rendered |-> settlement.rendered]
           /\ UNCHANGED errorMessage

\* a catch block that also clears what is displayed
RejectsClearing(batch, settlement) ==
  IF ~batch.isMounted \/ settlement.kind = "cancel"
  THEN UNCHANGED <<segments, status, errorMessage, latexCache, lastShown, lastApplied>>
  ELSE /\ status' = "error"
       /\ errorMessage' = UnableToConvert
       /\ segments' = <<>>
       /\ UNCHANGED <<latexCache, lastShown, lastApplied>>

\* a catch block that swallows every error
RejectsSilently(batch, settlement) ==
  UNCHANGED <<segments, status, errorMessage, latexCache, lastShown, lastApplied>>

\* the catch block
Rejects(batch, settlement) ==
  IF ~batch.isMounted \/ settlement.kind = "cancel"
  THEN UNCHANGED <<segments, status, errorMessage, latexCache, lastShown, lastApplied>>
  ELSE /\ status' = "error"
       /\ errorMessage' = IF settlement.kind = "response"
                          THEN settlement.response.error ELSE UnableToConvert
       /\ UNCHANGED <<segments, latexCache, lastShown, lastApplied>>

Settles(batch, settlement) ==
  /\ batch \in batches
  /\ batch.phase = "inflight"
  /\ batches' = batches \ {batch}
  /\ IF settlement.kind = "response" /\ settlement.response.status = 200
     THEN Resolves(batch, settlement)
     ELSE Rejects(batch, settlement)
  /\ UNCHANGED <<build, hasOpenAIKey, input, generation, posted>>
  /\ UNCHANGED serverVars
  /\ UNCHANGED <<extractorVars, normalizerVars, exportVars>>

Next ==
  \/ \E value \in Documents : Edit(value)
  \/ \E batch \in batches : TimerFires(batch)
  \/ \E batch \in batches : \E settlement \in Settlements(batch) : Settles(batch, settlement)

vars == <<editorVars, hasOpenAIKey, serverVars, extractorVars, normalizerVars, exportVars>>

Spec == Init /\ [][Next]_vars

\* an armed timer that is not cleared fires after its delay
TimerStep == \E batch \in batches : TimerFires(batch)

\* a request in flight settles: the service answers, the network fails or
\* the abort is delivered
SettleStep ==
  \E batch \in batches : \E settlement \in Settlements(batch) : Settles(batch, settlement)

\* the editor with timers that fire and requests that settle; the user may
\* stop editing at any time
FairSpec == Spec /\ WF_vars(TimerStep) /\ WF_vars(SettleStep)

\* ------------------------------------------------------------------------
\* The server on its own: one /convert request at a time
\* ------------------------------------------------------------------------
\* "*squareroot(2x)* is steep"
steepDocument ==
  <<"*","s","q","u","a","r","e","r","o","o","t","(","2","x",")","*"," ","i","s"," ",
    "s","t","e","e","p">>

ServerDocuments ==
  Documents \cup { <<"*","a","*","*","b","*","*","c","*">>, steepDocument }

RequestBodies ==
  {BodyMissing, BodyNonString} \cup {BodyString(d) : d \in ServerDocuments}

\* a client posts a body; the external service will behave as service
ReceiveConvert(body, service) ==
  /\ request = None \/ response # None
  /\ request' = [body |-> body, service |-> service]
  /\ response' = None
  /\ serviceCalls' = 0
  /\ UNCHANGED <<editorVars, hasOpenAIKey>>
  /\ UNCHANGED <<extractorVars, normalizerVars, exportVars>>

\* app.post('/convert') runs to its res.json / res.status(...).json
HandleConvert ==
  /\ request # None
  /\ response = None
  /\ response' = convertRoute(request.body, hasOpenAIKey, request.service)
  /\ serviceCalls' = IF /\ request.body.kind = "string"
                        /\ request.body.input # <<>>
                        /\ callsService(request.body.input, hasOpenAIKey)
                     THEN 1 ELSE 0
  /\ UNCHANGED <<editorVars, hasOpenAIKey, request>>
  /\ UNCHANGED <<extractorVars, normalizerVars, exportVars>>

ServerNext ==
  \/ \E body \in RequestBodies : \E service \in ServiceBehaviours :
        ReceiveConvert(body, service)
  \/ HandleConvert

ServerSpec == Init /\ [][ServerNext]_vars

\* ------------------------------------------------------------------------
\* The extractors on their own: a document grows one character at a time
\* ------------------------------------------------------------------------
\* longest document handed to the extractors
MaxDocLen == 6

\* the delimiter, two letters, and the two kinds of whitespace
Alphabet == {"*", "a", "b", " ", "\n"}

Type(c) ==
  /\ Len(document) < MaxDocLen
  /\ document' = Append(document, c)
  /\ extracted' = extractions(Append(document, c))
  /\ UNCHANGED <<editorVars, hasOpenAIKey, serverVars, normalizerVars, exportVars>>

ExtractNext == \E c \in Alphabet : Type(c)

ExtractSpec == Init /\ [][ExtractNext]_vars

\* ------------------------------------------------------------------------
\* normalizeLatex on its own: a LaTeX string grows one character at a time
\* ------------------------------------------------------------------------
\* longest string handed to normalizeLatex
MaxLatexLen == 6

\* the escape character, the letters of int, and a blank
LatexAlphabet == {Backslash, "i", "n", "t", " "}

Grow(c) ==
  /\ Len(latexString) < MaxLatexLen
  /\ latexString' = Append(latexString, c)
  /\ normalized' = normalizeLatex(Append(latexString, c))
  /\ UNCHANGED <<editorVars, hasOpenAIKey, serverVars, extractorVars, exportVars>>

NormalizeNext == \E c \in LatexAlphabet : Grow(c)

NormalizeSpec == Init /\ [][NormalizeNext]_vars

\* ------------------------------------------------------------------------
\* PDF export (server.js): POST /export-pdf, one request at a time
\* ------------------------------------------------------------------------
\* the latex field of the body: absent, a non-string value, '' or a document
ExportBodies == {"missing", "nonstring", "empty", "document"}

\* what readLogTail returns: '' when document.log cannot be read, else the
\* last lines of the log
LogTails == {"", "! Undefined control sequence."}

\* how compileLatexRemotely ends: with the PDF, or with the message of the
\* error thrown inside it
RemoteOutcomes == {"success", "Remote compiler failed", "Network Error"}

ExportBadRequestError == "Body must include a \"latex\" string."

CompilationFailedError ==
  "LaTeX compilation failed. Ensure a TeX engine (tectonic or pdflatex) is installed on the server."

\* res.send(buffer) with the X-Compiler header
PdfResponse(from) == [status |-> 200, from |-> from, error |-> "", log |-> ""]

\* res.status(code).json({ error, log })
ExportError(code, err, log) == [status |-> code, from |-> "", error |-> err, log |-> log]

\* the catch block of the handler: log is error?.log || ''
ExportFailed(log) == ExportError(500, CompilationFailedError, log)

otherVars == <<editorVars, hasOpenAIKey, serverVars, extractorVars, normalizerVars>>

\* a client posts a body to /export-pdf
ReceiveExport(body) ==
  /\ exportJob = None \/ exportResponse # None
  /\ exportJob' = [latex |-> body, pc |-> "handler", local |-> "none", logTail |-> ""]
  /\ compilerCalls' = [local |-> 0, remote |-> 0]
  /\ exportResponse' = None
  /\ UNCHANGED <<ALLOW_REMOTE_COMPILER, otherVars>>

\* the handler up to its call of compileLatex
HandleExport ==
  /\ exportJob # None
  /\ exportJob.pc = "handler"
  /\ IF exportJob.latex = "document"
     THEN /\ exportJob' = [exportJob EXCEPT !.pc = "prepare"]
          /\ UNCHANGED exportResponse
     ELSE /\ exportJob' = [exportJob EXCEPT !.pc = "done"]
          /\ exportResponse' = ExportError(400, ExportBadRequestError, "")
  /\ UNCHANGED <<ALLOW_REMOTE_COMPILER, compilerCalls, otherVars>>

\* compileLatex: mkdir and writeFile of the work directory; when one of
\* them throws, the error carries no log
PrepareWorkDir(ok) ==
  /\ exportJob # None
  /\ exportJob.pc = "prepare"
  /\ IF ok
     THEN /\ exportJob' = [exportJob EXCEPT !.pc = "local"]
          /\ UNCHANGED exportResponse
     ELSE /\ exportJob' = [exportJob EXCEPT !.pc = "done"]
          /\ exportResponse' = ExportFailed("")
  /\ UNCHANGED <<ALLOW_REMOTE_COMPILER, compilerCalls, otherVars>>

\* the local engine failed and the log tail was read: the remote compiler
\* is tried
onLocalFailureAlwaysRemote(allowed, logTail) ==
  [pc |-> "remote", response |-> None]

\* the local engine failed and the log tail was read: the remote compiler
\* is tried when allowed, else the error is thrown with error.log = logTail
onLocalFailure(allowed, logTail) ==
  IF allowed THEN [pc |-> "remote", response |-> None]
  ELSE [pc |-> "done", response |-> ExportFailed(logTail)]

\* execFileAsync(command, args, ...) and, when it throws, readLogTail
RunLocal(ok, logTail) ==
  /\ exportJob # None
  /\ exportJob.pc = "local"
  /\ compilerCalls' = [compilerCalls EXCEPT !.local = @ + 1]
  /\ IF ok
     THEN /\ exportJob' = [exportJob EXCEPT !.pc = "read", !.local = "ok"]
          /\ UNCHANGED exportResponse
     ELSE \E next \in {onLocalFailure(ALLOW_REMOTE_COMPILER, logTail)} :
            /\ exportJob' = [exportJob EXCEPT !.pc = next.pc, !.local = "failed",
                                              !.logTail = logTail]
            /\ exportResponse' = next.response
  /\ UNCHANGED <<ALLOW_REMOTE_COMPILER, otherVars>>

\* readFile(pdfPath) after the local engine ended without error
ReadPdf(ok) ==
  /\ exportJob # None
  /\ exportJob.pc = "read"
  /\ exportJob' = [exportJob EXCEPT !.pc = "done"]
  /\ exportResponse' = IF ok THEN PdfResponse("local") ELSE ExportFailed("")
  /\ UNCHANGED <<ALLOW_REMOTE_COMPILER, compilerCalls, otherVars>>

\* compileLatexRemotely(latex, logTail): err.log = logTail || error?.message || ''
RunRemote(outcome) ==
  /\ exportJob # None
  /\ exportJob.pc = "remote"
  /\ compilerCalls' = [compilerCalls EXCEPT !.remote = @ + 1]
  /\ exportJob' = [exportJob EXCEPT !.pc = "done"]
  /\ exportResponse' =
       IF outcome = "success" THEN PdfResponse("remote")
       ELSE ExportFailed(IF exportJob.logTail # "" THEN exportJob.logTail ELSE outcome)
  /\ UNCHANGED <<ALLOW_REMOTE_COMPILER, otherVars>>

ExportNext ==
  \/ \E body \in ExportBodies : ReceiveExport(body)
  \/ HandleExport
  \/ \E ok \in BOOLEAN : PrepareWorkDir(ok)
  \/ \E ok \in BOOLEAN : \E logTail \in LogTails : RunLocal(ok, logTail)
  \/ \E ok \in BOOLEAN : ReadPdf(ok)
  \/ \E outcome \in RemoteOutcomes : RunRemote(outcome)

\* ALLOW_REMOTE_COMPILER is set to 'false' in the environment, or to
\* anything else, or is not set
ExportInit == Started /\ ALLOW_REMOTE_COMPILER \in BOOLEAN

ExportSpec == ExportInit /\ [][ExportNext]_vars

\* ------------------------------------------------------------------------
\* Properties
\* ------------------------------------------------------------------------
\* a batch that can still act: its timer is armed or its request is not aborted
Live(b) == b.phase = "timer" \/ ~b.aborted

\* C1: once a later edit has occurred, the settlement (success, failure or
\* cancellation) of a batch issued for an earlier input changes neither the
\* displayed segments, nor the status, nor the error message, nor the cache.
C1_StaleResultDiscarded ==
  [][(/\ generation' = generation
      /\ \E b \in batches : b.id < generation /\ b \notin batches')
       => UNCHANGED <<segments, status, errorMessage, latexCache>>]_vars

\* a request is in flight for an input the user has since replaced
C1_Witness ==
  \E b \in batches : b.id < generation /\ b.phase = "inflight" /\ ~b.isMounted

\* C2: at most one batch is live, and it belongs to the current input.
C2_OneLiveBatch ==
  /\ Cardinality({b \in batches : Live(b)}) <= 1
  /\ \A b \in batches : Live(b) => b.id = generation /\ b.input = input

\* a live batch for the current input next to a cancelled one of an earlier input
C2_Witness ==
  /\ \E b \in batches : Live(b) /\ b.id = generation
  /\ \E b \in batches : ~Live(b) /\ b.id < generation

\* C3: right after an edit the displayed segments follow the document's
\* segments one for one: text unchanged, an instruction whose exact text is in
\* the cache as latex with the cached value, any other instruction as a
\* placeholder carrying the instruction text.
C3_HydrationFollowsCache ==
  [][generation' = generation + 1 =>
       LET st == extractFor(build, input')
       IN  /\ Len(segments') = Len(st)
           /\ \A i \in 1..Len(st) :
                segments'[i] =
                  IF st[i].type = "text" THEN Seg("text", st[i].content)
                  ELSE IF st[i].content \in DOMAIN latexCache
                  THEN Seg("latex", latexCache[st[i].content])
                  ELSE Seg("placeholder", st[i].content)]_vars

\* an edit met the cache with one instruction known and another unknown
C3_Witness ==
  /\ status = "loading"
  /\ generation >= 1
  /\ \E i, j \in 1..Len(segments) :
        segments[i].type = "latex" /\ segments[j].type = "placeholder"

\* every instruction of doc is a key of the cache (none, when it has no instruction)
AllCached(doc) ==
  LET st == extractFor(build, doc)
  IN  \A i \in 1..Len(st) : st[i].type = "math" => st[i].content \in DOMAIN latexCache

\* C4: an edit to a document whose instructions are all cached ends idle at
\* once and arms no batch; requests are only ever sent by armed batches, and
\* batches are only ever armed by an edit that leaves an instruction pending.
C4_CachedEditIsSynchronous ==
  [][/\ (generation' = generation + 1 /\ AllCached(input'))
          => (status' = "idle" /\ \A b \in batches' : b.id # generation')
     /\ \A p \in posted' \ posted :
          \E b \in batches : b.phase = "timer" /\ p = <<b.id, b.input>>
     /\ \A b \in batches' :
          (\A c \in batches : c.id # b.id)
            => (generation' = generation + 1 /\ b.id = generation' /\ ~AllCached(input'))]_vars

\* a document with instructions is shown idle although nothing was sent for it
C4_Witness ==
  /\ status = "idle"
  /\ generation >= 1
  /\ mathOf(extractFor(build, input)) # <<>>
  /\ \A p \in posted : p[1] # generation

\* C5 as stated: a document reconciled from the cache alone shows the same
\* segments as its last successful batch displayed.
C5_IdempotentDisplay ==
  (/\ status = "idle"
   /\ generation >= 1
   /\ mathOf(extractFor(build, input)) # <<>>
   /\ \A p \in posted : p[1] # generation
   /\ input \in DOMAIN lastShown)
     => segments = lastShown[input]

\* C6: a step that enters the error state leaves the cache and the displayed
\* segments as they were and sets an error message.
C6_FailureAppliesNothing ==
  [][(status' = "error" /\ status # "error")
       => /\ UNCHANGED <<latexCache, segments>>
          /\ generation' = generation
          /\ errorMessage' \in {UnableToConvert, ConversionFailedError}]_vars

\* a batch failed while earlier resolutions were cached
C6_Witness == status = "error" /\ latexCache # <<>>

\* C7 as stated: after a successful batch every instruction the server
\* rendered is cached under its own text with a rendering the server made for
\* that text, not for another instruction.
C7_CacheKeyedByPosition ==
  lastApplied # None =>
    \A k \in 1..Len(lastApplied.rendered) :
       lastApplied.rendered[k] # <<>> =>
         /\ k <= Len(lastApplied.mathSnapshot)
         /\ lastApplied.mathSnapshot[k] \in DOMAIN latexCache
         /\ \E j \in 1..Len(lastApplied.rendered) :
               /\ lastApplied.mathSnapshot[j] = lastApplied.mathSnapshot[k]
               /\ latexCache[lastApplied.mathSnapshot[k]] = lastApplied.rendered[j]

\* C8: no step removes a key from the cache.
C8_CacheGrows ==
  [][DOMAIN latexCache \subseteq DOMAIN latexCache']_vars

\* the cache holds the instructions of two different documents
C8_Witness == Cardinality(DOMAIN latexCache) >= 3

\* the instructions of the request being answered, as the server extracts them
requestedInstructions ==
  IF request = None \/ request.body.kind # "string" THEN <<>>
  ELSE contentsOf(mathOf(extractSegments(request.body.input)))

\* the server has answered a request for which the configured service
\* returned an array of length n
AnsweredWithArray(n) ==
  /\ request # None
  /\ response # None
  /\ hasOpenAIKey
  /\ ~request.service.throws
  /\ Len(request.service.parsed) = n

\* the last missing latex segments of the answer are the fallback
\* conversions of the last missing instructions
TailBackfilled(missing) ==
  LET lat   == latexOf(response.segments)
      instr == requestedInstructions
  IN  /\ response.status = 200
      /\ Len(lat) >= missing
      /\ \A j \in 1..missing :
           lat[Len(lat) - missing + j].content =
             normalizeLatex(basicInlineConverter(instr[Len(instr) - missing + j]))

\* C9 as stated: any array shorter than the instructions, the empty one
\* included, is completed by the fallback converter and the request succeeds.
C9_ShortArrayBackfilled ==
  \A n \in 0..MaxReply :
     (AnsweredWithArray(n) /\ n < Len(requestedInstructions))
       => TailBackfilled(Len(requestedInstructions) - n)

\* C10 as stated: where the service's array holds a non-string, the answer
\* carries the fallback conversion of that instruction.
C10_NonStringFallsBack ==
  (/\ AnsweredWithArray(Len(requestedInstructions))
   /\ \A k \in 1..Len(request.service.parsed) :
        request.service.parsed[k].isString => trim(request.service.parsed[k].text) # <<>>)
     => LET lat == latexOf(response.segments)
        IN  /\ response.status = 200
            /\ Len(lat) = Len(requestedInstructions)
            /\ \A k \in 1..Len(lat) :
                 ~request.service.parsed[k].isString =>
                    lat[k].content =
                      normalizeLatex(basicInlineConverter(requestedInstructions[k]))

\* the server has answered the request it holds
Answered200 == response # None /\ response.status = 200

\* the request being answered carries a non-empty string
ValidRequest ==
  request # None /\ request.body.kind = "string" /\ request.body.input # <<>>

\* the configured service failed: the call threw, or its array was empty
ServiceFailed ==
  /\ ValidRequest
  /\ response # None
  /\ hasOpenAIKey
  /\ requestedInstructions # <<>>
  /\ request.service.throws \/ request.service.parsed = <<>>

\* C11 as stated: when the configured service fails, the answer is a success
\* that carries the fallback conversion of every instruction.
C11_FailureDegradesToFallback ==
  ServiceFailed =>
    /\ response.status = 200
    /\ contentsOf(latexOf(response.segments)) =
         [k \in 1..Len(requestedInstructions) |->
            normalizeLatex(basicInlineConverter(requestedInstructions[k]))]

\* C12: without a key the service is never called, and every non-empty
\* string input is answered with success.
C12_NoKeyNoServiceCall ==
  (~hasOpenAIKey /\ response # None) =>
    /\ serviceCalls = 0
    /\ ValidRequest => response.status = 200

\* without a key, a document with instructions has been converted
C12_Witness ==
  /\ ~hasOpenAIKey
  /\ ValidRequest
  /\ Answered200
  /\ requestedInstructions # <<>>
  /\ Len(latexOf(response.segments)) = Len(requestedInstructions)

\* C13: a missing, non-string or empty input is answered with the request
\* error, carries no segments and causes no service call.
C13_InvalidInputRejected ==
  (response # None /\ ~ValidRequest) =>
    /\ response.status = 400
    /\ response.error = BadRequestError
    /\ response.segments = <<>>
    /\ serviceCalls = 0

\* the empty string was posted while a key is configured
C13_Witness ==
  /\ hasOpenAIKey
  /\ request # None
  /\ request.body = BodyString(<<>>)
  /\ response # None
  /\ response.status = 400

\* the segments the server extracts from the request being answered
requestedParts ==
  IF ValidRequest THEN extractSegments(request.body.input) ELSE <<>>

\* the k-th conversion result: the k-th element of the service's array when
\* a key is configured and the array reaches that far, else the fallback
\* conversion of the k-th instruction
resultAt(k) ==
  IF hasOpenAIKey /\ k <= Len(request.service.parsed)
  THEN IF request.service.parsed[k].isString
       THEN trim(request.service.parsed[k].text) ELSE <<>>
  ELSE basicInlineConverter(requestedInstructions[k])

\* how many of the first i extracted segments are instructions
instructionsUpTo(parts, i) ==
  Cardinality({j \in 1..i : parts[j].type = "math"})

\* what the segment at position i contributes to the response: prose as it
\* was extracted, an instruction as the rendering of its own conversion
\* result (nothing when that rendering is empty)
contributionAt(parts, i) ==
  IF parts[i].type = "text" THEN <<Seg("text", parts[i].content)>>
  ELSE IF normalizeLatex(resultAt(instructionsUpTo(parts, i))) = <<>> THEN <<>>
  ELSE <<Seg("latex", normalizeLatex(resultAt(instructionsUpTo(parts, i))))>>

RECURSIVE contributionsFrom(_, _)
contributionsFrom(parts, i) ==
  IF i > Len(parts) THEN <<>>
  ELSE contributionAt(parts, i) \o contributionsFrom(parts, i + 1)

Extractors == {"server", "App", "part_000"}

\* the document holds no delimiter pair: fewer than two delimiters
NoDelimiterPair ==
  Cardinality({i \in 1..Len(document) : document[i] = Delim}) < 2

\* C15 as stated: without a delimiter pair every extractor yields the one
\* Text segment holding the trimmed document, or nothing for a blank one.
C15_NoPairOneTrimmedText ==
  NoDelimiterPair =>
    \A e \in Extractors :
       extracted[e] = IF trim(document) = <<>> THEN <<>>
                      ELSE <<Seg("text", trim(document))>>

RECURSIVE concatFrom(_, _)
concatFrom(pieces, i) ==
  IF i > Len(pieces) THEN <<>> ELSE pieces[i] \o concatFrom(pieces, i + 1)

\* the span a segment of the frontend extractor came from: the frontend
\* keeps the run untrimmed, and an instruction sat between two delimiters
spanOf(seg) ==
  IF seg.type = "math" THEN <<Delim>> \o seg.content \o <<Delim>> ELSE seg.content

spansOf(parts) == concatFrom([i \in 1..Len(parts) |-> spanOf(parts[i])], 1)

significant(s) == SelectSeq(s, LAMBDA c : c # Delim /\ ~IsSpace(c))

C17_SquarerootSingleBackslash ==
  (/\ ~hasOpenAIKey
   /\ request # None
   /\ request.body = BodyString(steepDocument)
   /\ response # None)
    => response.segments =
         << Seg("latex", <<Backslash, "s","q","r","t","{","2","x","}">>),
            Seg("text", <<"i","s"," ","s","t","e","e","p">>) >>

\* C18: while the input is empty or blank nothing is displayed, the status
\* is idle, no batch is armed for it, and no request was ever sent for an
\* empty or blank input.
C18_EmptyDocumentNoCall ==
  /\ trim(input) = <<>> =>
       /\ segments = <<>>
       /\ status = "idle"
       /\ errorMessage = Null
       /\ \A b \in batches : b.id # generation
  /\ \A p \in posted : trim(p[2]) # <<>>

\* the input was emptied while the request for the previous input was in
\* flight
C18_Witness ==
  /\ generation >= 1
  /\ input = <<>>
  /\ \E b \in batches : b.phase = "inflight" /\ b.aborted

\* C19: a request is only ever sent for the current input, once per edit,
\* and an edit leaves no timer armed for an earlier input.
C19_Debounced ==
  [][/\ posted' # posted =>
          /\ posted' = posted \cup {<<generation, input>>}
          /\ \A p \in posted : p[1] # generation
     /\ generation' # generation =>
          \A b \in batches' : b.phase = "timer" => b.id = generation']_vars

\* the seed was edited before its timer fired, and the request that was
\* sent carries the latest input
C19_Witness ==
  /\ generation >= 1
  /\ \A p \in posted : p[1] # 0
  /\ <<generation, input>> \in posted

\* the instruction texts of a document that miss the cache, in order
pendingInstructions(structured, cache) ==
  [i \in 1..Len(SelectSeq(mathOf(structured),
                          LAMBDA seg : cacheGet(cache, seg.content) = <<>>)) |->
     trim(SelectSeq(mathOf(structured),
                    LAMBDA seg : cacheGet(cache, seg.content) = <<>>)[i].content)]

\* the instruction texts the server hands to the external service for a
\* posted input
sentToService(source) == contentsOf(mathOf(extractSegments(source)))

\* C20 as stated: the service call made for a request carries exactly the
\* instructions that missed the cache when the request was sent.
C20_OnlyPendingSent ==
  [][\A p \in posted' \ posted :
        hasOpenAIKey =>
          sentToService(p[2]) = pendingInstructions(extractFor(build, p[2]), latexCache)]_vars

\* the fallback converter knows the instruction's shape: one of its three
\* patterns (squareroot, integral, fraction) matches somewhere in it
matchesKnownShape(instruction) ==
  replaceFrom(instruction, 1) # instruction

\* C21 as stated: without a key the answer carries one latex segment for each
\* instruction of a known shape and none for the others, which are omitted
\* while the rest of the response is returned.
C21_UnmatchedInstructionOmitted ==
  (~hasOpenAIKey /\ ValidRequest /\ Answered200) =>
    Len(latexOf(response.segments)) =
      Cardinality({k \in 1..Len(requestedInstructions) :
                     matchesKnownShape(requestedInstructions[k])})

\* the command occurs at index at as an identifier of its own: no letter and
\* no escape character before it, no letter after it
bareAt(s, command, at) ==
  /\ HasAt(s, command, at)
  /\ at = 1 \/ (~IsLetter(s[at - 1]) /\ s[at - 1] # Backslash)
  /\ lookaheadOk(s, at + Len(command))

\* the bare occurrences of the known commands: <<command, index>>
bareCommands(s) ==
  {ka \in (1..Len(commands)) \X (1..Len(s)) : bareAt(s, commands[ka[1]], ka[2])}

\* the string without its escape characters
unescaped(s) == SelectSeq(s, LAMBDA c : c # Backslash)

\* C22 as stated: normalizeLatex adds one escape character for each bare
\* occurrence of a known command and none elsewhere, returns a string without
\* bare commands unchanged, and alters no other character.
C22_EscapesExactlyBareCommands ==
  /\ unescaped(normalized) = unescaped(latexString)
  /\ Len(normalized) = Len(latexString) + Cardinality(bareCommands(latexString))
  /\ bareCommands(latexString) = {} => normalized = latexString

\* C30 as stated: normalizing a normalized string changes nothing.
C30_NormalizeIdempotent ==
  normalizeLatex(normalized) = normalized

\* how many delimiter characters the string holds
delimitersIn(s) == Cardinality({i \in 1..Len(s) : s[i] = Delim})

\* the delimiter characters held by the segments of type t
delimitersOf(parts, t) ==
  Cardinality({ij \in (1..Len(parts)) \X (1..MaxDocLen + 1) :
                 /\ parts[ij[1]].type = t
                 /\ ij[2] <= Len(parts[ij[1]].content)
                 /\ parts[ij[1]].content[ij[2]] = Delim})

\* C23: only complete pairs open an instruction, no instruction holds a
\* delimiter, and in a document with an odd number of delimiters the one
\* left over is a literal character of the last segment, a Text segment.
C23_UnmatchedDelimiterLiteral ==
  \A e \in Extractors :
     /\ Len(mathOf(extracted[e])) <= delimitersIn(document) \div 2
     /\ delimitersOf(extracted[e], "math") = 0
     /\ delimitersIn(document) % 2 = 1 =>
          /\ extracted[e] # <<>>
          /\ extracted[e][Len(extracted[e])].type = "text"
          /\ delimitersIn(extracted[e][Len(extracted[e])].content) = 1
          /\ delimitersOf(extracted[e], "text") = 1

\* an instruction followed by a delimiter without a partner
C23_Witness ==
  /\ delimitersIn(document) = 3
  /\ Len(mathOf(extracted.server)) = 1
  /\ Len(extracted.App) >= 2
  /\ delimitersOf(extracted.App, "text") = 1

delimiterAt(s, k) ==
  CHOOSE i \in 1..Len(s) :
     /\ s[i] = Delim
     /\ Cardinality({j \in 1..i : s[j] = Delim}) = k

\* the scan pairs the delimiters in order: the k-th pair is made of the
\* delimiters 2k-1 and 2k; what it encloses
insidePair(s, k) ==
  SubSeq(s, delimiterAt(s, 2 * k - 1) + 1, delimiterAt(s, 2 * k) - 1)

\* the prose between the k-th pair and the next one
betweenPairs(s, k) ==
  SubSeq(s, delimiterAt(s, 2 * k) + 1, delimiterAt(s, 2 * k + 1) - 1)

\* some pair encloses nothing but whitespace
BlankInstruction(s) ==
  \E k \in 1..(delimitersIn(s) \div 2) : trim(insidePair(s, k)) = <<>>

\* some two pairs have nothing but whitespace between them
BlankProse(s) ==
  \E k \in 1..((delimitersIn(s) \div 2) - 1) : trim(betweenPairs(s, k)) = <<>>

typesOf(parts) == [i \in 1..Len(parts) |-> parts[i].type]

\* C29: each frontend extractor and the backend extractor yield segments of
\* the same types in the same order, hence as many instructions, and the
\* i-th instructions are equal up to trimming.
C29_ExtractorsAgreeOnInstructions ==
  \A f \in FrontendBuilds :
     /\ typesOf(extracted[f]) = typesOf(extracted.server)
     /\ Len(mathOf(extracted[f])) = Len(mathOf(extracted.server))
     /\ \A i \in 1..Len(mathOf(extracted.server)) :
          trim(mathOf(extracted[f])[i].content) = mathOf(extracted.server)[i].content

\* an instruction typed with a blank inside its delimiters, followed by
\* prose: the frontend's snapshot and the backend's instruction differ by
\* that blank
C29_Witness ==
  /\ Len(extracted.server) = 2
  /\ extracted.server[1].type = "math"
  /\ extracted.server[2].type = "text"
  /\ extracted.App[1].content # extracted.server[1].content

\* the remote compiler is invoked in this step
RemoteInvoked == compilerCalls'.remote > compilerCalls.remote

\* C25: each backend is invoked at most once per request; the remote
\* compiler is invoked only in a step taken after the local engine has run
\* once and failed, and only when remote compilation is allowed; after a
\* local success it is never invoked; and with remote compilation disallowed
\* a local failure is answered with an error carrying the local log tail.
C25_BackendsInSequence ==
  /\ [](/\ compilerCalls.local <= 1
        /\ compilerCalls.remote <= 1
        /\ compilerCalls.remote = 1 =>
             /\ compilerCalls.local = 1
             /\ exportJob.local = "failed"
             /\ ALLOW_REMOTE_COMPILER
        /\ (exportJob # None /\ exportJob.local = "ok") => compilerCalls.remote = 0
        /\ (/\ exportJob # None
            /\ exportJob.local = "failed"
            /\ ~ALLOW_REMOTE_COMPILER) =>
             /\ exportResponse # None
             /\ exportResponse.status = 500
             /\ exportResponse.error = CompilationFailedError
             /\ exportResponse.log = exportJob.logTail)
  /\ [][RemoteInvoked =>
          /\ compilerCalls.local = 1
          /\ compilerCalls.remote = 0
          /\ exportJob.local = "failed"
          /\ ALLOW_REMOTE_COMPILER]_vars

\* the local engine failed and the remote compiler produced the PDF
C25_Witness ==
  /\ compilerCalls = [local |-> 1, remote |-> 1]
  /\ exportResponse # None
  /\ exportResponse.status = 200
  /\ exportResponse.from = "remote"

\* a live batch exists for the current input
Pending ==
  \E b \in batches : Live(b) /\ b.id = generation /\ b.input = input

\* C26: the status is loading exactly when a live batch (armed timer or
\* uncancelled request in flight) exists for the current input.
C26_LoadingIffPending ==
  (status = "loading") <=> Pending

\* the request of the current input is in flight and the status is loading,
\* next to a cancelled request of an earlier input
C26_Witness ==
  /\ status = "loading"
  /\ \E b \in batches : b.phase = "inflight" /\ b.id = generation /\ ~b.aborted
  /\ \E b \in batches : b.id < generation /\ b.aborted

\* C27: when timers fire and every request settles, a status of loading is
\* always eventually followed by idle or error.
C27_LoadingLeadsToSettled ==
  (status = "loading") ~> (status \in {"idle", "error"})

\* the request of the current input was sent and failed: loading has been
\* followed by error, and nothing is pending
C27_Witness ==
  /\ status = "error"
  /\ <<generation, input>> \in posted
  /\ \A b \in batches : ~Live(b)

\* a Placeholder segment is displayed
PlaceholderShown ==
  \E i \in 1..Len(segments) : segments[i].type = "placeholder"

\* C28: while the status is idle no Placeholder segment is displayed.
C28_IdleShowsNoPlaceholder ==
  status = "idle" => ~PlaceholderShown

\* the conversion of the current input succeeded: its placeholders were
\* replaced by what the server answered and the status is idle
C28_Witness ==
  /\ status = "idle"
  /\ <<generation, input>> \in posted
  /\ \E i \in 1..Len(segments) : segments[i].type = "latex"

====
